---- MODULE Spec2Model ----
(***************************************************************************)
(* A model of comics-scrapper-v3.py: the listing search (search_comics),   *)
(* the selection parser (get_user_selection), the file-name sanitiser      *)
(* (sanitize_filename) and the download session (main's selection loop     *)
(* around download_selected_comics, extract_download_link, download_file). *)
(*                                                                         *)
(* Python strings that the code inspects character by character (titles,   *)
(* headings, the selection line) are sequences of one-character strings.   *)
(* Addresses, which the code only passes on or tests for ".zip", are       *)
(* atoms.                                                                  *)
(***************************************************************************)
EXTENDS Integers, Sequences, FiniteSets, TLC

VARIABLES
    \* search_comics
    max_results,    \* the max_results argument
    all_comics,     \* the accumulator all_comics
    page,           \* the page counter
    spc,            \* position in search_comics: "loop", "posts", "done"
    posts_todo,     \* articles of the current page not yet processed
    page_comics,    \* the list page_comics of the current page
    requests,       \* the page numbers requests.get was called for, in order
    endReason,      \* which break ended the while loop
    \* get_user_selection
    n_comics,       \* len(comics)
    line,           \* the line input() returned, as typed
    selected_indices, \* the local list selected_indices
    gpc,            \* position: "prompt", "retry" (end of a loop pass), "returned"
    outcome,        \* the branch the pass took
    result,         \* the value returned
    \* sanitize_filename
    san_in,         \* the argument filename
    san_out,        \* the value returned
    san_pc,         \* "call" before the call, "done" after it
    \* main's selection loop and download_selected_comics
    comics,         \* the list comics of main
    dir_exists,     \* does the download directory exist
    files,          \* the files in it: records of a name and "complete" or "partial"
    dpc,            \* position: "select", "batch", "exit"
    dl_selected,    \* the argument selected_indices of the running batch
    pos,            \* the loop counter i of line 373
    downloaded_links, \* the dict downloaded_links
    summary,        \* the counts the last batch printed
    batches,        \* batches started in this session
    last,           \* what the last pass of the for loop did
    ok_attempts     \* passes of the batch that printed "Successfully downloaded"

searchVars == <<max_results, all_comics, page, spc, posts_todo, page_comics,
                requests, endReason>>

selVars == <<n_comics, line, selected_indices, gpc, outcome, result>>

sanVars == <<san_in, san_out, san_pc>>

dlVars == <<comics, dir_exists, files, dpc, dl_selected, pos,
            downloaded_links, summary, batches, last, ok_attempts>>

vars == <<searchVars, selVars, sanVars, dlVars>>

\* ------------------------------------------------------------------ bounds

\* largest max_results tried
MaxResults == 5
\* largest number of <article> blocks on one listing page
MaxPosts == 3
\* largest number of candidates offered for selection (besides the 10 of
\* the documented scenarios)
MaxComics == 2
\* longest selection line enumerated character by character
MaxLineLen == 4
\* longest title given to sanitize_filename
MaxTitleLen == 4
\* most download batches in one session
MaxBatches == 2

\* ----------------------------------------------------------------- helpers

\* Python's None where a string is expected
None == "None"

\* the whitespace characters of the model's alphabets
Whitespace == {" ", "\t"}

RECURSIVE LStrip(_)
\* str.lstrip(): drop leading whitespace
LStrip(s) ==
    IF s = <<>> THEN <<>>
    ELSE IF Head(s) \in Whitespace THEN LStrip(Tail(s)) ELSE s

RECURSIVE RStrip(_)
\* str.rstrip(): drop trailing whitespace
RStrip(s) ==
    IF s = <<>> THEN <<>>
    ELSE IF s[Len(s)] \in Whitespace THEN RStrip(SubSeq(s, 1, Len(s) - 1)) ELSE s

\* str.strip()
Strip(s) == RStrip(LStrip(s))

\* a slice that is not cut: xs instead of xs[:n]
TakeUncut(xs, n) == xs

\* list slicing xs[:n]
Take(xs, n) == SubSeq(xs, 1, IF n < Len(xs) THEN n ELSE Len(xs))

\* ----------------------------------------------------------- search_comics

\* Comic.__init__(title, page_url)
Comic(title, page_url) ==
    [title |-> title, page_url |-> page_url, download_link |-> None,
     downloaded |-> FALSE]

\* What one <article> block can look like to the extraction code: the number
\* of <a> elements, the href of the third one, whether an <h1> exists and its
\* text, and whether touching the block raises.
PostSet ==
    [nlinks : {2, 3},
     href   : {None, "", "u1", "u2"},
     has_h1 : BOOLEAN,
     text   : {<<>>, <<" ">>, <<"A">>, <<" ", "A", " ">>},
     raises : BOOLEAN]

\* the heading of a block: headings[0].text.strip()
Heading(post) == Strip(post.text)

\* Lines 236-257: does the block yield a Comic?  It does not when it has
\* fewer than three links, no <h1>, a falsy href or heading, or when
\* processing it raises (the inner except continues).
PostValid(post) ==
    /\ ~post.raises
    /\ ~(post.nlinks < 3)
    /\ post.has_h1
    /\ ~(post.href = None \/ post.href = "")
    /\ ~(Heading(post) = <<>>)

\* the safety bound of line 273
PageLimit == 10

\* max_results of the one search long enough to run into the page limit:
\* one entry per page leaves it unfilled after PageLimit pages
LongSearch == PageLimit + 1

\* The blocks drawn for a search of max_results = m: every kind for the
\* short searches; for the long one the blocks with the second address are
\* left out (the code never looks at what the address is, lines 246-250).
PostsFor(m) ==
    IF m = LongSearch THEN {post \in PostSet : post.href # "u2"}
    ELSE PostSet

\* the selection parser at rest
SelIdle ==
    /\ n_comics = 0
    /\ line = <<>>
    /\ selected_indices = <<>>
    /\ gpc = "idle"
    /\ outcome = "none"
    /\ result = <<>>

\* sanitize_filename at rest
SanIdle ==
    /\ san_in = <<>>
    /\ san_out = <<>>
    /\ san_pc = "idle"

\* what `last` holds before any pass of the for loop
NoStep ==
    [idx |-> -1, had_link |-> FALSE, resolver_called |-> FALSE,
     transfer |-> FALSE, result |-> "none"]

\* what `summary` holds while no batch has just ended
NoSummary == [attempted |-> 0, successful |-> 0, failed |-> 0]

\* the download session at rest
DlIdle ==
    /\ comics = <<>>
    /\ dir_exists = FALSE
    /\ files = {}
    /\ dpc = "idle"
    /\ dl_selected = <<>>
    /\ pos = 0
    /\ downloaded_links = {}
    /\ summary = NoSummary
    /\ batches = 0
    /\ last = NoStep
    /\ ok_attempts = 0

SearchInit ==
    /\ SelIdle
    /\ SanIdle
    /\ DlIdle
    /\ max_results \in (1..MaxResults) \cup {LongSearch}
    /\ all_comics = <<>>
    /\ page = 1
    /\ spc = "loop"
    /\ posts_todo = 0
    /\ page_comics = <<>>
    /\ requests = <<>>
    /\ endReason = "none"

\* FetchPage with `continue` where the except clauses of lines 277-282
\* break: a failed page is asked for again.
FetchPageRetry ==
    /\ spc = "loop"
    /\ Len(all_comics) < max_results
    /\ requests' = Append(requests, page)
    /\ \/ /\ spc' = "loop"
          /\ endReason' \in {"network_error", "error"}
          /\ UNCHANGED <<posts_todo, page_comics>>
       \/ /\ spc' = "done"
          /\ endReason' = "no_articles"
          /\ UNCHANGED <<posts_todo, page_comics>>
       \/ /\ \E n \in 1..MaxPosts : posts_todo' = n
          /\ page_comics' = <<>>
          /\ spc' = "posts"
          /\ UNCHANGED endReason
    /\ UNCHANGED <<max_results, all_comics, page>>
    /\ UNCHANGED <<selVars, sanVars, dlVars>>

\* Lines 219-232 and 277-282: the while test, the request for the page and
\* what comes back: a transport failure, a parse failure, a page without
\* <article> blocks, or n blocks to go through.
FetchPage ==
    /\ spc = "loop"
    /\ Len(all_comics) < max_results
    /\ requests' = Append(requests, page)
    /\ \/ /\ spc' = "done"
          /\ endReason' = "network_error"
          /\ UNCHANGED <<posts_todo, page_comics>>
       \/ /\ spc' = "done"
          /\ endReason' = "error"
          /\ UNCHANGED <<posts_todo, page_comics>>
       \/ /\ spc' = "done"
          /\ endReason' = "no_articles"
          /\ UNCHANGED <<posts_todo, page_comics>>
       \/ /\ \E n \in 1..MaxPosts : posts_todo' = n
          /\ page_comics' = <<>>
          /\ spc' = "posts"
          /\ UNCHANGED endReason
    /\ UNCHANGED <<max_results, all_comics, page>>
    /\ UNCHANGED <<selVars, sanVars, dlVars>>

\* Lines 235-257: one iteration of `for post in posts_lists`.
ProcessPost ==
    /\ spc = "posts"
    /\ posts_todo > 0
    /\ \E post \in PostsFor(max_results) :
          page_comics' = IF PostValid(post)
                         THEN Append(page_comics, Comic(Heading(post), post.href))
                         ELSE page_comics
    /\ posts_todo' = posts_todo - 1
    /\ UNCHANGED <<max_results, all_comics, page, spc, requests, endReason>>
    /\ UNCHANGED <<selVars, sanVars, dlVars>>

\* EndPage without the break of line 261: a page without valid entries
\* is passed over and the next page is asked for.
EndPageNoBreak ==
    /\ spc = "posts"
    /\ posts_todo = 0
    /\ \/ /\ page_comics = <<>>
          /\ page' = page + 1
          /\ spc' = IF page + 1 > PageLimit THEN "done" ELSE "loop"
          /\ UNCHANGED <<all_comics, endReason>>
       \/ /\ page_comics # <<>>
          /\ Len(all_comics \o page_comics) >= max_results
          /\ all_comics' = Take(all_comics \o page_comics, max_results)
          /\ spc' = "done"
          /\ endReason' = "cap"
          /\ UNCHANGED page
       \/ /\ page_comics # <<>>
          /\ Len(all_comics \o page_comics) < max_results
          /\ all_comics' = all_comics \o page_comics
          /\ page' = page + 1
          /\ IF page + 1 > PageLimit
             THEN spc' = "done" /\ endReason' = "page_limit"
             ELSE spc' = "loop" /\ UNCHANGED endReason
    /\ UNCHANGED <<max_results, posts_todo, page_comics, requests>>
    /\ UNCHANGED <<selVars, sanVars, dlVars>>

\* EndPage without the safety limit of lines 273-275: the page after the
\* tenth is asked for as well.
EndPageNoLimit ==
    /\ spc = "posts"
    /\ posts_todo = 0
    /\ \/ /\ page_comics = <<>>
          /\ spc' = "done"
          /\ endReason' = "no_valid"
          /\ UNCHANGED <<all_comics, page>>
       \/ /\ page_comics # <<>>
          /\ Len(all_comics \o page_comics) >= max_results
          /\ all_comics' = Take(all_comics \o page_comics, max_results)
          /\ spc' = "done"
          /\ endReason' = "cap"
          /\ UNCHANGED page
       \/ /\ page_comics # <<>>
          /\ Len(all_comics \o page_comics) < max_results
          /\ all_comics' = all_comics \o page_comics
          /\ page' = page + 1
          /\ spc' = "loop"
          /\ UNCHANGED endReason
    /\ UNCHANGED <<max_results, posts_todo, page_comics, requests>>
    /\ UNCHANGED <<selVars, sanVars, dlVars>>

\* Lines 259-275: after the last block of the page.
EndPage ==
    /\ spc = "posts"
    /\ posts_todo = 0
    /\ \/ /\ page_comics = <<>>
          /\ spc' = "done"
          /\ endReason' = "no_valid"
          /\ UNCHANGED <<all_comics, page>>
       \/ /\ page_comics # <<>>
          /\ Len(all_comics \o page_comics) >= max_results
          /\ all_comics' = Take(all_comics \o page_comics, max_results)
          /\ spc' = "done"
          /\ endReason' = "cap"
          /\ UNCHANGED page
       \/ /\ page_comics # <<>>
          /\ Len(all_comics \o page_comics) < max_results
          /\ all_comics' = all_comics \o page_comics
          /\ page' = page + 1
          /\ IF page + 1 > PageLimit
             THEN spc' = "done" /\ endReason' = "page_limit"
             ELSE spc' = "loop" /\ UNCHANGED endReason
    /\ UNCHANGED <<max_results, posts_todo, page_comics, requests>>
    /\ UNCHANGED <<selVars, sanVars, dlVars>>

SearchNext == FetchPage \/ ProcessPost \/ EndPage

SpecSearch == SearchInit /\ [][SearchNext]_vars

\* search_comics runs in one thread and every request it makes has a
\* timeout (line 224), so a step that can be taken is taken.
SpecSearchFair == SpecSearch /\ WF_vars(SearchNext)

\* ------------------------------------------------------ get_user_selection

\* the search at rest
SearchIdle ==
    /\ max_results = 0
    /\ all_comics = <<>>
    /\ page = 0
    /\ spc = "idle"
    /\ posts_todo = 0
    /\ page_comics = <<>>
    /\ requests = <<>>
    /\ endReason = "none"

Digits == {"0", "1", "2", "3", "4", "5", "6", "7", "8", "9"}

\* the value of one decimal digit
DigitVal(c) ==
    CASE c = "0" -> 0 [] c = "1" -> 1 [] c = "2" -> 2 [] c = "3" -> 3
      [] c = "4" -> 4 [] c = "5" -> 5 [] c = "6" -> 6 [] c = "7" -> 7
      [] c = "8" -> 8 [] c = "9" -> 9

\* str.lower() on one character of the alphabets used here
LowerChar(c) ==
    CASE c = "Q" -> "q" [] c = "A" -> "a" [] c = "L" -> "l" [] c = "Y" -> "y"
      [] OTHER -> c

\* str.lower() left out
LowerOmitted(s) == s

\* str.lower()
Lower(s) == [i \in 1..Len(s) |-> LowerChar(s[i])]

\* the characters of a string
Chars(s) == {s[i] : i \in 1..Len(s)}

RECURSIVE Split(_, _)
\* str.split(sep) for a one-character separator: always at least one piece
Split(s, sep) ==
    IF \A i \in 1..Len(s) : s[i] # sep
    THEN <<s>>
    ELSE LET k == CHOOSE i \in 1..Len(s) :
                      s[i] = sep /\ \A j \in 1..(i - 1) : s[j] # sep
         IN  <<SubSeq(s, 1, k - 1)>> \o Split(SubSeq(s, k + 1, Len(s)), sep)

\* Does int(s) succeed?  int() strips whitespace and wants decimal digits
\* (the alphabets here hold no sign and no underscore; a "-" never reaches
\* int() because the part was split on it).
IsInt(s) == Strip(s) # <<>> /\ Chars(Strip(s)) \subseteq Digits

RECURSIVE DecVal(_)
DecVal(s) == IF s = <<>> THEN 0
             ELSE 10 * DecVal(SubSeq(s, 1, Len(s) - 1)) + DigitVal(s[Len(s)])

\* int(s), where it succeeds
IntVal(s) == DecVal(Strip(s))

\* list(range(a, b))
PyRange(a, b) == [i \in 1..(b - a) |-> a + i - 1]

\* the elements of a list
Elems(xs) == {xs[i] : i \in 1..Len(xs)}

RECURSIVE Sorted(_)
\* sorted(list(S)) of a set of integers
Sorted(S) ==
    IF S = {} THEN <<>>
    ELSE LET m == CHOOSE x \in S : \A y \in S : x <= y
         IN  <<m>> \o Sorted(S \ {m})

\* ParsePart where an index outside the list raises like a malformed token
ParsePartStrict(part, n) ==
    LET p == Strip(part) IN
    IF "-" \in Chars(p)
    THEN LET pieces == Split(p, "-") IN
         IF Len(pieces) # 2 \/ ~IsInt(pieces[1]) \/ ~IsInt(pieces[2])
         THEN [error |-> TRUE, idx |-> <<>>]
         ELSE LET start_idx == IntVal(pieces[1]) - 1
                  end_idx   == IntVal(pieces[2]) - 1
              IN  IF /\ 0 <= start_idx /\ start_idx < n
                     /\ 0 <= end_idx /\ end_idx < n
                  THEN [error |-> FALSE, idx |-> PyRange(start_idx, end_idx + 1)]
                  ELSE [error |-> TRUE, idx |-> <<>>]
    ELSE IF ~IsInt(p)
         THEN [error |-> TRUE, idx |-> <<>>]
         ELSE LET idx == IntVal(p) - 1
              IN  IF 0 <= idx /\ idx < n
                  THEN [error |-> FALSE, idx |-> <<idx>>]
                  ELSE [error |-> TRUE, idx |-> <<>>]

\* Lines 325-344: one pass of `for part in parts`.  error: the pass raised
\* ValueError (int() of a non-number, or a split on "-" that does not give
\* two pieces); idx: what the pass appended to selected_indices.
ParsePart(part, n) ==
    LET p == Strip(part) IN
    IF "-" \in Chars(p)
    THEN LET pieces == Split(p, "-") IN
         IF Len(pieces) # 2 \/ ~IsInt(pieces[1]) \/ ~IsInt(pieces[2])
         THEN [error |-> TRUE, idx |-> <<>>]
         ELSE LET start_idx == IntVal(pieces[1]) - 1
                  end_idx   == IntVal(pieces[2]) - 1
              IN  IF /\ 0 <= start_idx /\ start_idx < n
                     /\ 0 <= end_idx /\ end_idx < n
                  THEN [error |-> FALSE, idx |-> PyRange(start_idx, end_idx + 1)]
                  ELSE [error |-> FALSE, idx |-> <<>>]
    ELSE IF ~IsInt(p)
         THEN [error |-> TRUE, idx |-> <<>>]
         ELSE LET idx == IntVal(p) - 1
              IN  IF 0 <= idx /\ idx < n
                  THEN [error |-> FALSE, idx |-> <<idx>>]
                  ELSE [error |-> FALSE, idx |-> <<>>]

RECURSIVE ParseParts(_, _, _)
\* Lines 321-344: the loop over the parts, from the list built so far.  It
\* stops at the first part that raises.
ParseParts(parts, n, sofar) ==
    IF parts = <<>> THEN [error |-> FALSE, idx |-> sofar]
    ELSE LET r == ParsePart(Head(parts), n) IN
         IF r.error THEN [error |-> TRUE, idx |-> sofar]
         ELSE ParseParts(Tail(parts), n, sofar \o r.idx)

\* sorted(list(set(xs))) without the set(): duplicates stay
SortedKeepDuplicates(xs) ==
    IF xs = <<>> THEN <<>>
    ELSE LET lo == CHOOSE x \in Elems(xs) : \A y \in Elems(xs) : x <= y
             n  == Cardinality({i \in 1..Len(xs) : xs[i] = lo})
         IN  [i \in 1..n |-> lo] \o Sorted(Elems(xs) \ {lo})

\* Line 347: sorted(list(set(selected_indices)))
SortedUnique(xs) == Sorted(Elems(xs))

\* Lines 312-361: one pass of the while loop on the line typed and the
\* answer to the confirmation prompt (read only when something was selected).
SelectionPass(typed, confirm, n) ==
    LET selection == Lower(Strip(typed)) IN
    IF selection = <<"q">>
    THEN [outcome |-> "quit", returns |-> TRUE, indices |-> <<>>]
    ELSE IF selection = <<"a", "l", "l">>
    THEN [outcome |-> "all", returns |-> TRUE, indices |-> PyRange(0, n)]
    ELSE LET r == ParseParts(Split(selection, ","), n, <<>>) IN
         IF r.error
         THEN [outcome |-> "invalid_format", returns |-> FALSE, indices |-> r.idx]
         ELSE LET chosen == SortedUnique(r.idx) IN
              IF chosen = <<>>
              THEN [outcome |-> "no_valid", returns |-> FALSE, indices |-> chosen]
              ELSE IF Lower(Strip(confirm)) = <<"y">>
                   THEN [outcome |-> "confirmed", returns |-> TRUE,
                         indices |-> chosen]
                   ELSE [outcome |-> "declined", returns |-> FALSE,
                         indices |-> chosen]

\* the characters selection lines are enumerated over
SelAlphabet == {"1", "2", "3", ",", "-", "q", " "}

\* the lines of the documented scenarios and examples, and a few with
\* letters
ScenarioLines ==
    { <<"1", ",", "3", ",", "7", "-", "9", ",", "q">>,
      <<"2", "-", "4", ",", "2">>,
      <<"1", ",", "3", ",", "7", "-", "1", "0", ",", "1", "5">>,
      <<"Q">>,
      <<" ", "Q", " ">>,
      <<"1", ",", "Q">>,
      <<"a", "l", "l">>,
      <<" ", "A", "L", "L">>,
      <<"1", ",", "a", "l", "l">>,
      <<"1", ",", "x">>,
      <<"1", "-", "2", "-", "3">> }

SelLines ==
    UNION {[1..k -> SelAlphabet] : k \in 0..MaxLineLen} \cup ScenarioLines

ConfirmLines == {<<"Y", " ">>, <<"n">>}

SelInit ==
    /\ SearchIdle
    /\ SanIdle
    /\ DlIdle
    /\ n_comics \in (1..MaxComics) \cup {10}
    /\ line = <<>>
    /\ selected_indices = <<>>
    /\ gpc = "prompt"
    /\ outcome = "none"
    /\ result = <<>>

\* Lines 302-361: one pass of `while True`: the prompt, the line, the
\* parse, the confirmation, and the return where the pass returns.
ReadSelection ==
    /\ gpc = "prompt"
    /\ \E typed \in SelLines, confirm \in ConfirmLines :
          LET r == SelectionPass(typed, confirm, n_comics) IN
          /\ line' = typed
          /\ selected_indices' = r.indices
          /\ outcome' = r.outcome
          /\ gpc' = IF r.returns THEN "returned" ELSE "retry"
          /\ result' = IF r.returns THEN r.indices ELSE <<>>
    /\ UNCHANGED n_comics
    /\ UNCHANGED <<searchVars, sanVars, dlVars>>

\* Line 302: back to the top of `while True` after a pass that did not return.
Reprompt ==
    /\ gpc = "retry"
    /\ gpc' = "prompt"
    /\ line' = <<>>
    /\ selected_indices' = <<>>
    /\ outcome' = "none"
    /\ UNCHANGED <<n_comics, result>>
    /\ UNCHANGED <<searchVars, sanVars, dlVars>>

SelNext == ReadSelection \/ Reprompt

SpecSelect == SelInit /\ [][SelNext]_vars

\* ------------------------------------------------------- sanitize_filename

\* a character class that misses "?" and "*"
IllegalCharsShort == {"<", ">", ":", "\"", "/", "\\", "|"}

\* the character class of line 67: [<>:"/\\|?*]
IllegalChars == {"<", ">", ":", "\"", "/", "\\", "|", "?", "*"}

\* re.sub(r'[<>:"/\\|?*]', "_", s)
ReplaceIllegal(s) ==
    [i \in 1..Len(s) |-> IF s[i] \in IllegalChars THEN "_" ELSE s[i]]

RECURSIVE CollapseWhitespace(_)
\* re.sub(r"\s+", " ", s): every run of whitespace becomes one space
CollapseWhitespace(s) ==
    IF s = <<>> THEN <<>>
    ELSE IF Head(s) \in Whitespace
         THEN <<" ">> \o CollapseWhitespace(LStrip(s))
         ELSE <<Head(s)>> \o CollapseWhitespace(Tail(s))

\* the length limit of lines 69-70
NameLimit == 200

\* Lines 65-71
sanitize_filename(filename) ==
    LET replaced  == ReplaceIllegal(filename)
        collapsed == Strip(CollapseWhitespace(replaced))
    IN  IF Len(collapsed) > NameLimit THEN Take(collapsed, NameLimit)
        ELSE collapsed

\* the characters titles are enumerated over
TitleAlphabet ==
    {"<", ">", ":", "\"", "/", "\\", "|", "?", "*", "a", " ", "\t"}

\* The titles sanitize_filename is called with are headings as search_comics
\* keeps them: stripped and not empty (lines 247-252).
Titles ==
    {t \in UNION {[1..k -> TitleAlphabet] : k \in 1..MaxTitleLen} :
        Strip(t) = t}

SanInit ==
    /\ SearchIdle
    /\ SelIdle
    /\ DlIdle
    /\ san_in \in Titles
    /\ san_out = <<>>
    /\ san_pc = "call"

\* Line 134: filename = sanitize_filename(filename)
Sanitize ==
    /\ san_pc = "call"
    /\ san_out' = sanitize_filename(san_in)
    /\ san_pc' = "done"
    /\ UNCHANGED san_in
    /\ UNCHANGED <<searchVars, selVars, dlVars>>

SanNext == Sanitize

SpecSanitize == SanInit /\ [][SanNext]_vars

\* --------------------------------------------- download_selected_comics

\* the artifact addresses a detail page can hold
Links == {"https://h/a.ZIP", "https://h/b"}

\* ".zip" in link.lower(), for the addresses above
HasZip(link) == link \in {"https://h/a.ZIP"}

\* What a detail page can be to extract_download_link: the request or the
\* parse raises, or the page has divs of class aio-button-center, the first
\* of which holds the addresses `links` that match the pattern.
DetailSet ==
    { [raises |-> TRUE,  divs |-> 0, links |-> <<>>],
      [raises |-> FALSE, divs |-> 0, links |-> <<>>],
      [raises |-> FALSE, divs |-> 1, links |-> <<>>],
      [raises |-> FALSE, divs |-> 1, links |-> <<"https://h/b">>],
      [raises |-> FALSE, divs |-> 2,
       links |-> <<"https://h/a.ZIP", "https://h/b">>] }

\* Lines 181-210
extract_download_link(detail) ==
    IF detail.raises THEN None
    ELSE IF detail.divs = 0 THEN None
    ELSE IF detail.links = <<>> THEN None
    ELSE detail.links[1]

\* Lines 136-139: the file name with its extension
FileName(link, title) ==
    sanitize_filename(title) \o (IF HasZip(link) THEN <<".zip">> ELSE <<".cbr">>)

\* os.path.exists(filepath)
FileExists(fs, name) == \E f \in fs : f.name = name

\* What the artifact request and the write can do: complete, fail before
\* anything is written (connection, status), fail to open the file for
\* writing, or fail in mid-stream after the file was opened.
NetOutcomes == {"ok", "http_error", "open_error", "stream_error"}

\* download_file without the os.path.exists test of lines 143-145
download_file_always(link, title, dir, fs, mkdir_ok, net) ==
    LET name == FileName(link, title) IN
    IF ~dir /\ ~mkdir_ok
    THEN [ok |-> FALSE, dir |-> dir, files |-> fs, transfer |-> FALSE,
          result |-> "dir_error"]
    ELSE IF net = "ok"
    THEN [ok |-> TRUE, dir |-> TRUE,
          files |-> {f \in fs : f.name # name}
                      \cup {[name |-> name, state |-> "complete"]},
          transfer |-> TRUE, result |-> "transferred"]
    ELSE IF net = "stream_error"
    THEN [ok |-> FALSE, dir |-> TRUE,
          files |-> {f \in fs : f.name # name}
                      \cup {[name |-> name, state |-> "partial"]},
          transfer |-> TRUE, result |-> "stream_error"]
    ELSE [ok |-> FALSE, dir |-> TRUE, files |-> fs, transfer |-> TRUE,
          result |-> net]

\* Lines 125-178.  dir, fs: the directory and its files before the call;
\* mkdir_ok: can the directory be created; net: what the transfer does.
\* transfer: was the artifact address requested.
download_file(link, title, dir, fs, mkdir_ok, net) ==
    LET name == FileName(link, title) IN
    IF ~dir /\ ~mkdir_ok
    THEN [ok |-> FALSE, dir |-> dir, files |-> fs, transfer |-> FALSE,
          result |-> "dir_error"]
    ELSE IF FileExists(fs, name)
    THEN [ok |-> TRUE, dir |-> TRUE, files |-> fs, transfer |-> FALSE,
          result |-> "exists"]
    ELSE IF net = "ok"
    THEN [ok |-> TRUE, dir |-> TRUE,
          files |-> fs \cup {[name |-> name, state |-> "complete"]},
          transfer |-> TRUE, result |-> "transferred"]
    ELSE IF net = "stream_error"
    THEN [ok |-> FALSE, dir |-> TRUE,
          files |-> fs \cup {[name |-> name, state |-> "partial"]},
          transfer |-> TRUE, result |-> "stream_error"]
    ELSE [ok |-> FALSE, dir |-> TRUE, files |-> fs, transfer |-> TRUE,
          result |-> net]

\* downloaded_links[title] = link
DictPut(d, k, v) == {e \in d : e.key # k} \cup {[key |-> k, value |-> v]}

\* ProcessStep with a placeholder address in place of an absent link: the
\* download goes on although the resolver found nothing.
ProcessStepNoGuard(comic, detail, dir, fs, links, mkdir_ok, net) ==
    LET had  == ~(comic.download_link \in {None, ""})
        link == IF had THEN comic.download_link
                ELSE extract_download_link(detail)
        used == IF link \in {None, ""} THEN "https://h/b" ELSE link
        d    == download_file(used, comic.title, dir, fs, mkdir_ok, net)
    IN  [comic |-> [comic EXCEPT !.download_link = link,
                                 !.downloaded = d.ok \/ comic.downloaded],
         dir |-> d.dir, files |-> d.files,
         links |-> DictPut(links, comic.title, used),
         had_link |-> had, resolver_called |-> ~had,
         transfer |-> d.transfer, result |-> d.result]

\* ProcessStep without the test of line 378: the detail page is fetched
\* and the link taken from it on every pass.
ProcessStepReresolve(comic, detail, dir, fs, links, mkdir_ok, net) ==
    LET had  == ~(comic.download_link \in {None, ""})
        link == extract_download_link(detail)
    IN  IF link \in {None, ""}
        THEN [comic |-> [comic EXCEPT !.download_link = link],
              dir |-> dir, files |-> fs, links |-> links,
              had_link |-> had, resolver_called |-> TRUE,
              transfer |-> FALSE, result |-> "no_link"]
        ELSE LET d == download_file(link, comic.title, dir, fs, mkdir_ok, net)
             IN  [comic |-> [comic EXCEPT !.download_link = link,
                                          !.downloaded = d.ok \/ comic.downloaded],
                  dir |-> d.dir, files |-> d.files,
                  links |-> DictPut(links, comic.title, link),
                  had_link |-> had, resolver_called |-> TRUE,
                  transfer |-> d.transfer, result |-> d.result]

\* Lines 374-390: one pass of the for loop on `comic`.
ProcessStep(comic, detail, dir, fs, links, mkdir_ok, net) ==
    LET had  == ~(comic.download_link \in {None, ""})
        link == IF had THEN comic.download_link
                ELSE extract_download_link(detail)
    IN  IF link \in {None, ""}
        THEN [comic |-> [comic EXCEPT !.download_link = link],
              dir |-> dir, files |-> fs, links |-> links,
              had_link |-> had, resolver_called |-> ~had,
              transfer |-> FALSE, result |-> "no_link"]
        ELSE LET d == download_file(link, comic.title, dir, fs, mkdir_ok, net)
             IN  [comic |-> [comic EXCEPT !.download_link = link,
                                          !.downloaded = d.ok \/ comic.downloaded],
                  dir |-> d.dir, files |-> d.files,
                  links |-> DictPut(links, comic.title, link),
                  had_link |-> had, resolver_called |-> ~had,
                  transfer |-> d.transfer, result |-> d.result]

\* The titles of the session's candidates, by position: the first two give
\* the same file name, the third another one.
TitleAt(i) ==
    IF i % 3 = 1 THEN <<"b", "?">>
    ELSE IF i % 3 = 2 THEN <<"b", "*">>
    ELSE <<"a">>

\* The lists get_user_selection returns to main for a batch: ascending,
\* without duplicates, not empty (lines 347-356; an empty list ends main).
Selections(n) == {Sorted(S) : S \in (SUBSET (0..(n - 1))) \ {{}}}

\* the file write_to_json writes (line 394)
JsonFile == [name |-> <<"downloaded_comics.json">>, state |-> "complete"]

DlInit ==
    /\ SearchIdle
    /\ SelIdle
    /\ SanIdle
    /\ \E n \in 1..MaxComics : comics = [i \in 1..n |-> Comic(TitleAt(i), "u1")]
    /\ dir_exists \in BOOLEAN
    /\ files = {}
    /\ dpc = "select"
    /\ dl_selected = <<>>
    /\ pos = 0
    /\ downloaded_links = {}
    /\ summary = NoSummary
    /\ batches = 0
    /\ last = NoStep
    /\ ok_attempts = 0

\* Lines 470-478 and 364-371: the operator's selection starts a batch.
BatchStart ==
    /\ dpc = "select"
    /\ batches < MaxBatches
    /\ \E sel \in Selections(Len(comics)) : dl_selected' = sel
    /\ pos' = 1
    /\ downloaded_links' = {}
    /\ batches' = batches + 1
    /\ dpc' = "batch"
    /\ last' = NoStep
    /\ ok_attempts' = 0
    /\ summary' = NoSummary
    /\ UNCHANGED <<comics, dir_exists, files>>
    /\ UNCHANGED <<searchVars, selVars, sanVars>>

\* Lines 474-476: the operator quits.
Quit ==
    /\ dpc = "select"
    /\ dpc' = "exit"
    /\ UNCHANGED <<comics, dir_exists, files, dl_selected, pos,
                   downloaded_links, summary, batches, last, ok_attempts>>
    /\ UNCHANGED <<searchVars, selVars, sanVars>>

\* the detail pages that matter to a pass: none is fetched when the link
\* is there already (line 378)
DetailChoices(comic) ==
    IF comic.download_link \in {None, ""} THEN DetailSet
    ELSE {[raises |-> FALSE, divs |-> 0, links |-> <<>>]}

\* ProcessComic with a `break` after a candidate that could not be
\* downloaded: the candidates after it are not attempted.
ProcessComicAbort ==
    /\ dpc = "batch"
    /\ pos <= Len(dl_selected)
    /\ \E detail \in DetailChoices(comics[dl_selected[pos] + 1]) :
       \E mkdir_ok \in (IF dir_exists THEN {TRUE} ELSE BOOLEAN) :
       \E net \in NetOutcomes :
          LET idx == dl_selected[pos]
              r   == ProcessStep(comics[idx + 1], detail, dir_exists, files,
                                 downloaded_links, mkdir_ok, net)
          IN  /\ r.transfer \/ net = "ok"
              /\ r.result # "no_link" \/ mkdir_ok
              /\ comics' = [comics EXCEPT ![idx + 1] = r.comic]
              /\ dir_exists' = r.dir
              /\ files' = r.files
              /\ downloaded_links' = r.links
              /\ last' = [idx |-> idx, had_link |-> r.had_link,
                          resolver_called |-> r.resolver_called,
                          transfer |-> r.transfer, result |-> r.result]
              /\ ok_attempts' = IF r.result \in {"exists", "transferred"}
                                THEN ok_attempts + 1 ELSE ok_attempts
              /\ pos' = IF r.result \in {"exists", "transferred"}
                        THEN pos + 1 ELSE Len(dl_selected) + 1
    /\ UNCHANGED <<dpc, dl_selected, summary, batches>>
    /\ UNCHANGED <<searchVars, selVars, sanVars>>

\* Lines 373-390: one pass of `for i, idx in enumerate(selected_indices, 1)`.
\* The directory creation and the transfer are drawn only where the pass
\* gets to them.
ProcessComic ==
    /\ dpc = "batch"
    /\ pos <= Len(dl_selected)
    /\ \E detail \in DetailChoices(comics[dl_selected[pos] + 1]) :
       \E mkdir_ok \in (IF dir_exists THEN {TRUE} ELSE BOOLEAN) :
       \E net \in NetOutcomes :
          LET idx == dl_selected[pos]
              r   == ProcessStep(comics[idx + 1], detail, dir_exists, files,
                                 downloaded_links, mkdir_ok, net)
          IN  /\ r.transfer \/ net = "ok"
              /\ r.result # "no_link" \/ mkdir_ok
              /\ comics' = [comics EXCEPT ![idx + 1] = r.comic]
              /\ dir_exists' = r.dir
              /\ files' = r.files
              /\ downloaded_links' = r.links
              /\ last' = [idx |-> idx, had_link |-> r.had_link,
                          resolver_called |-> r.resolver_called,
                          transfer |-> r.transfer, result |-> r.result]
              /\ ok_attempts' = IF r.result \in {"exists", "transferred"}
                                THEN ok_attempts + 1 ELSE ok_attempts
    /\ pos' = pos + 1
    /\ UNCHANGED <<dpc, dl_selected, summary, batches>>
    /\ UNCHANGED <<searchVars, selVars, sanVars>>

\* Lines 392-406 and 480-486: the JSON file (write_to_json swallows a failed
\* write), the summary, and the operator's answer to "download more?".
BatchEnd ==
    /\ dpc = "batch"
    /\ pos > Len(dl_selected)
    /\ \E json_ok \in (IF downloaded_links # {} /\ dir_exists
                       THEN BOOLEAN ELSE {FALSE}) :
          files' = IF json_ok THEN files \cup {JsonFile} ELSE files
    /\ LET successful ==
               Cardinality({i \in 1..Len(dl_selected) :
                               comics[dl_selected[i] + 1].downloaded})
       IN  summary' = [attempted |-> Len(dl_selected),
                       successful |-> successful,
                       failed |-> Len(dl_selected) - successful]
    /\ \E continue_choice \in BOOLEAN :
          dpc' = IF continue_choice THEN "select" ELSE "exit"
    /\ UNCHANGED <<comics, dir_exists, dl_selected, pos, downloaded_links,
                   batches, last, ok_attempts>>
    /\ UNCHANGED <<searchVars, selVars, sanVars>>

\* Lines 470-472: while main waits at the selection prompt the destination
\* directory belongs to the operator, who can move an artifact out of it.
\* os.path.exists (line 143) reads whatever is there at the next batch.
FileRemoved ==
    /\ dpc = "select"
    /\ batches < MaxBatches
    /\ \E f \in files \ {JsonFile} : files' = files \ {f}
    /\ UNCHANGED <<comics, dir_exists, dpc, dl_selected, pos,
                   downloaded_links, summary, batches, last, ok_attempts>>
    /\ UNCHANGED <<searchVars, selVars, sanVars>>

DlNext == BatchStart \/ Quit \/ ProcessComic \/ BatchEnd \/ FileRemoved

SpecDownload == DlInit /\ [][DlNext]_vars

\* ------------------------------------------------------------------ claims

\* the page numbers 1..n in order
Upto(n) == [i \in 1..n |-> i]

\* C1: the list search_comics returns holds at most max_results candidates,
\* and each of them has a non-empty title and a non-empty page_url.
C1_ResultCapped ==
    spc = "done" =>
        /\ max_results > 0
        /\ Len(all_comics) <= max_results
        /\ \A i \in 1..Len(all_comics) :
              /\ all_comics[i].title # <<>>
              /\ all_comics[i].page_url \notin {None, ""}

\* C1's case: the second page brings more entries than the cap leaves room
\* for, and the result is cut to max_results.
C1_Witness ==
    /\ spc = "done"
    /\ endReason = "cap"
    /\ page = 2
    /\ Len(page_comics) = 3
    /\ max_results = 4
    /\ Len(all_comics) = 4

\* C2: a page with no <article> block, or with no valid entry, ends the
\* search: the function returns what it had accumulated, the page was the
\* last one asked for, and nothing is requested once it has returned.  With
\* max_results = 5, three entries from page 1 and none on page 2, the result
\* has three candidates and the requests are for pages 1 and 2 only.
C2_EmptyPageEndsSearch ==
    [][ /\ ( \/ /\ spc = "loop"
                /\ endReason' = "no_articles"
             \/ /\ spc = "posts"
                /\ posts_todo = 0
                /\ page_comics = <<>> )
           => /\ spc' = "done"
              /\ all_comics' = all_comics
              /\ requests' = Upto(page)
              /\ ( /\ max_results = 5
                    /\ page = 2
                    /\ Len(all_comics) = 3 )
                 => ( Len(all_comics') = 3 /\ requests' = <<1, 2>> )
        /\ spc = "done" => requests' = requests
      ]_vars

\* C2's case: the scenario's search has returned, with three candidates from
\* page 1 and a second page that had blocks but no valid entry.
C2_Witness ==
    /\ spc = "done"
    /\ endReason = "no_valid"
    /\ max_results = 5
    /\ Len(all_comics) = 3
    /\ requests = <<1, 2>>

\* C9: a transport or parse failure on a page ends the loop: search_comics
\* returns exactly what it had accumulated before, the failed page is the
\* last one requested and it was requested once.
C9_FailureEndsSearch ==
    [][ /\ ( spc = "loop" /\ endReason' \in {"network_error", "error"} )
           => /\ spc' = "done"
              /\ all_comics' = all_comics
              /\ requests' = Upto(page)
        /\ spc = "done" => requests' = requests
      ]_vars

\* C9's case: page 1 was accumulated, page 2 failed, the search returned.
C9_Witness ==
    /\ spc = "done"
    /\ endReason = "network_error"
    /\ requests = <<1, 2>>
    /\ Len(all_comics) = 2

\* C10: the list search_comics returns never holds two candidates with the
\* same page_url and title.
C10_NoDuplicates ==
    spc = "done" =>
        \A i, j \in 1..Len(all_comics) :
            (i # j) =>
                ~( /\ all_comics[i].page_url = all_comics[j].page_url
                   /\ all_comics[i].title = all_comics[j].title )

\* ---- the selection grammar as the claims state it

\* the comma-separated tokens of a line
Tokens(l) == Split(Strip(l), ",")

\* the token q, in either case
IsQToken(tok) == Strip(tok) \in {<<"q">>, <<"Q">>}

HasQToken(l) == \E i \in 1..Len(Tokens(l)) : IsQToken(Tokens(l)[i])

\* a single integer
IsNumberToken(tok) == IsInt(tok)

\* two integers around one "-"
IsRangeToken(tok) ==
    /\ Len(Split(Strip(tok), "-")) = 2
    /\ IsInt(Split(Strip(tok), "-")[1])
    /\ IsInt(Split(Strip(tok), "-")[2])

\* the zero-based indices a token stands for among n candidates: n-1 for a
\* number n in 1..n, a-1..b-1 for a range with both bounds in 1..n, nothing
\* for any other token
Contribution(tok, n) ==
    IF IsNumberToken(tok)
    THEN IF IntVal(tok) \in 1..n THEN {IntVal(tok) - 1} ELSE {}
    ELSE IF IsRangeToken(tok)
    THEN LET a == IntVal(Split(Strip(tok), "-")[1])
             b == IntVal(Split(Strip(tok), "-")[2])
         IN  IF a \in 1..n /\ b \in 1..n THEN (a - 1)..(b - 1) ELSE {}
    ELSE {}

\* the union of the contributions of a line's tokens
LineContribution(l, n) ==
    UNION {Contribution(Tokens(l)[i], n) : i \in 1..Len(Tokens(l))}

\* a pass of the parser has just handled the line
PassDone == gpc \in {"retry", "returned"}

\* C3 as stated: a q token anywhere among the tokens makes the parser
\* return CANCEL.
C3_QAnywhereCancels ==
    (PassDone /\ HasQToken(line)) => (gpc = "returned" /\ outcome = "quit")

\* C3 amended: CANCEL (the empty list of line 315) is returned exactly when
\* the whole line, trimmed, is q or Q; a q token beside other tokens raises
\* ValueError, the line is rejected and the operator is asked again.
C3_QAloneCancels ==
    PassDone =>
        /\ (outcome = "quit") <=> IsQToken(line)
        /\ outcome = "quit" => (gpc = "returned" /\ result = <<>>)
        /\ (HasQToken(line) /\ Len(Tokens(line)) > 1)
              => (outcome = "invalid_format" /\ gpc = "retry")

\* C3's case: the scenario line "1,3,7-9,q" with 10 candidates has been
\* handled.
C3_Witness ==
    /\ line = <<"1", ",", "3", ",", "7", "-", "9", ",", "q">>
    /\ n_comics = 10
    /\ outcome = "invalid_format"
    /\ gpc = "retry"

\* C4: an index list the parser returns holds only indices in
\* 0..candidate_count-1, strictly ascending (so without duplicates), and is
\* the union of the contributions of the line's valid tokens (every index
\* for "all"); "2-4,2" with 10 candidates gives 1, 2, 3.
C4_ReturnedIndices ==
    gpc = "returned" =>
        /\ \A i \in 1..Len(result) : result[i] \in 0..(n_comics - 1)
        /\ \A i, j \in 1..Len(result) : i < j => result[i] < result[j]
        /\ outcome = "confirmed" =>
              Elems(result) = LineContribution(line, n_comics)
        /\ outcome = "all" => Elems(result) = 0..(n_comics - 1)
        /\ outcome \in {"confirmed", "all", "quit"}
        /\ (line = <<"2", "-", "4", ",", "2">> /\ n_comics = 10)
              => result = <<1, 2, 3>>

\* C4's case: "2-4,2" with 10 candidates was confirmed and returned.
C4_Witness ==
    /\ gpc = "returned"
    /\ line = <<"2", "-", "4", ",", "2">>
    /\ n_comics = 10
    /\ result = <<1, 2, 3>>

\* a token that is neither a number nor a range of two numbers
Malformed(tok) == ~IsNumberToken(tok) /\ ~IsRangeToken(tok)

\* the line is neither the quit line nor the all line
OrdinaryLine(l) ==
    ~IsQToken(l) /\ Lower(Strip(l)) # <<"a", "l", "l">>

\* C5 as stated: an invalid token does not abort the parse: whenever the
\* line has valid tokens, their indices are selected.
C5_InvalidTokenSkipped ==
    (PassDone /\ OrdinaryLine(line) /\ ~HasQToken(line)
       /\ LineContribution(line, n_comics) # {})
      => /\ outcome # "invalid_format"
         /\ Elems(selected_indices) = LineContribution(line, n_comics)

\* C5 amended: a number or a range that is out of bounds is skipped and the
\* other tokens still contribute; a token that is neither a number nor a
\* range of two numbers raises ValueError, which rejects the whole line:
\* nothing is returned and the operator is asked again.
C5_OutOfBoundsSkipped ==
    (PassDone /\ OrdinaryLine(line)) =>
        IF \E i \in 1..Len(Tokens(line)) : Malformed(Tokens(line)[i])
        THEN outcome = "invalid_format" /\ gpc = "retry" /\ result = <<>>
        ELSE /\ outcome \in {"confirmed", "declined", "no_valid"}
             /\ Elems(selected_indices) = LineContribution(line, n_comics)
             /\ outcome = "confirmed" => result = selected_indices

\* C5's case: "3,1" with 2 candidates: 3 is out of bounds and skipped, 1 is
\* selected.
C5_Witness ==
    /\ line = <<"3", ",", "1">>
    /\ n_comics = 2
    /\ gpc = "returned"
    /\ result = <<0>>

\* the seven characters the claim lists: < / \ : * ? "
SevenChars == {"<", "/", "\\", ":", "*", "?", "\""}

\* the nine characters that may not appear in a file name
NineChars == SevenChars \cup {">", "|"}

\* C8 as stated: the sanitised name holds none of the seven characters, has
\* the length of the title, and differs from it only where one of the seven
\* stood.
C8_OnlyListedPositionsChange ==
    san_pc = "done" =>
        /\ Chars(san_out) \cap SevenChars = {}
        /\ Len(san_out) = Len(san_in)
        /\ \A i \in 1..Len(san_in) :
              san_in[i] \notin SevenChars => san_out[i] = san_in[i]

\* whitespace that sanitize_filename rewrites: a tab, a space at either end,
\* or two whitespace characters in a row
HasLooseWhitespace(t) ==
    \/ "\t" \in Chars(t)
    \/ Strip(t) # t
    \/ \E i \in 1..(Len(t) - 1) : t[i] = " " /\ t[i + 1] = " "

\* C8 amended: the sanitised name holds none of < > : " / \ | ? * and is
\* never longer than the title; when the title has no tab, no space at
\* either end, no two spaces in a row and at most 200 characters, the name
\* has the title's length and is the title with "_" exactly where one of
\* those nine characters stood.
C8_SanitizedName ==
    san_pc = "done" =>
        /\ Chars(san_out) \cap NineChars = {}
        /\ Len(san_out) <= Len(san_in)
        /\ (~HasLooseWhitespace(san_in) /\ Len(san_in) <= 200) =>
              /\ Len(san_out) = Len(san_in)
              /\ \A i \in 1..Len(san_in) :
                    san_out[i] = IF san_in[i] \in NineChars THEN "_"
                                 ELSE san_in[i]

\* C8's case: a title with three of the listed characters was sanitised.
C8_Witness ==
    /\ san_pc = "done"
    /\ san_in = <<"<", "/", "a", "?">>
    /\ san_out = <<"_", "_", "a", "_">>

\* ---- download_selected_comics

\* the step is a pass of the for loop, on the candidate at index
\* dl_selected[pos]
IsPass == dpc = "batch" /\ pos <= Len(dl_selected) /\ pos' = pos + 1

\* the candidate has a download link
HasLink(c) == c.download_link \notin {None, ""}

\* the candidate is marked downloaded and a file stands at the path
\* download_file computes for it
Satisfied(c, fs) ==
    /\ c.downloaded
    /\ HasLink(c)
    /\ FileExists(fs, FileName(c.download_link, c.title))

\* C6: download_selected_comics run twice on the same candidate and
\* destination: the run whose transfer completes leaves downloaded = true
\* and the file at the computed path; that stays so until the next run as
\* long as nothing is taken out of the destination; and
\* a run that finds it so leaves downloaded = true, requests no artifact
\* and writes nothing: download_file answers "already exists".  More
\* generally, a pass that finds a file at the path computed for the
\* candidate's link marks it downloaded without a transfer.
C6_SecondRunSkipsTransfer ==
    [][ /\ files \subseteq files' =>
              \A i \in 1..Len(comics) :
                  Satisfied(comics[i], files) => Satisfied(comics'[i], files')
        /\ IsPass =>
              LET c  == comics[dl_selected[pos] + 1]
                  cn == comics'[dl_selected[pos] + 1]
              IN  /\ last'.result = "transferred" =>
                        (last'.transfer /\ Satisfied(cn, files'))
                  /\ Satisfied(c, files) =>
                        /\ cn.downloaded
                        /\ cn.download_link = c.download_link
                        /\ ~last'.transfer
                        /\ ~last'.resolver_called
                        /\ last'.result = "exists"
                        /\ files' = files
                  /\ ( /\ HasLink(cn)
                        /\ FileExists(files, FileName(cn.download_link, c.title)) )
                     => /\ cn.downloaded
                        /\ ~last'.transfer
                        /\ last'.result = "exists"
                        /\ files' = files
      ]_vars

\* C6's case: a session with one candidate; its file was transferred
\* completely in the first batch and the second batch has just processed it
\* again.
C6_Witness ==
    /\ Len(comics) = 1
    /\ batches = 2
    /\ last.idx = 0
    /\ last.result = "exists"
    /\ comics[1].downloaded
    /\ [name |-> FileName(comics[1].download_link, comics[1].title),
        state |-> "complete"] \in files

\* C7: a pass on a candidate without link whose resolution gives nothing:
\* the candidate is not marked downloaded, no artifact is requested, no
\* file is written, downloaded_links gets no entry, and the loop goes on to
\* the next selected candidate.
C7_UnresolvedIsSkipped ==
    [][ IsPass =>
          LET c  == comics[dl_selected[pos] + 1]
              cn == comics'[dl_selected[pos] + 1]
          IN  (~HasLink(c) /\ ~HasLink(cn)) =>
                 /\ ~c.downloaded
                 /\ ~cn.downloaded
                 /\ last'.resolver_called
                 /\ ~last'.transfer
                 /\ last'.result = "no_link"
                 /\ files' = files
                 /\ downloaded_links' = downloaded_links
                 /\ dpc' = "batch"
                 /\ dl_selected' = dl_selected
      ]_vars

\* C7's case: the first selected candidate could not be resolved and the
\* second one was then processed and transferred.
C7_Witness ==
    /\ dpc = "batch"
    /\ dl_selected = <<0, 1>>
    /\ pos = 3
    /\ ~HasLink(comics[1])
    /\ ~comics[1].downloaded
    /\ last.idx = 1
    /\ last.result = "transferred"
    /\ Cardinality(downloaded_links) = 1

\* what a pass can end with when the candidate was not downloaded: no
\* link resolved, the directory cannot be created, the request fails, the
\* file cannot be opened, the stream breaks
Failures == {"no_link", "dir_error", "http_error", "open_error", "stream_error"}

\* C11: within a batch the for loop goes through the selection, which is
\* strictly ascending, one position after the other: each pass handles the
\* candidate at the current position and moves to the next position,
\* whatever the pass ended with, so every selected candidate is attempted
\* once and in order; no state of the batch is stuck (nothing is raised out
\* of a pass); and the batch is left only after the last position, by the
\* summary, which counts every selected candidate as attempted.
C11_EveryItemAttempted ==
    /\ [](dpc = "batch" =>
            /\ pos \in 1..(Len(dl_selected) + 1)
            /\ \A i \in 1..(Len(dl_selected) - 1) :
                  dl_selected[i] < dl_selected[i + 1])
    /\ [][ dpc = "batch" =>
             \/ /\ pos <= Len(dl_selected)
                /\ pos' = pos + 1
                /\ last'.idx = dl_selected[pos]
                /\ last'.result \in Failures \cup {"exists", "transferred"}
                /\ dpc' = "batch"
                /\ dl_selected' = dl_selected
                /\ summary' = summary
             \/ /\ pos = Len(dl_selected) + 1
                /\ dpc' \in {"select", "exit"}
                /\ summary'.attempted = Len(dl_selected)
                /\ dl_selected' = dl_selected
      ]_vars

\* C11's case: in a batch of two the first candidate was resolved but its
\* download failed; the second one was attempted and transferred, and the
\* summary was printed.
C11_Witness ==
    /\ dpc \in {"select", "exit"}
    /\ batches = 1
    /\ dl_selected = <<0, 1>>
    /\ summary.attempted = 2
    /\ summary.failed = 1
    /\ HasLink(comics[1])
    /\ ~comics[1].downloaded
    /\ last.idx = 1
    /\ last.result = "transferred"

\* the byte-complete file of candidate c at the path download_file computes
CompleteFile(c) ==
    [name |-> FileName(c.download_link, c.title), state |-> "complete"]

\* C12: in every batch of a session, a pass that turns a candidate's
\* downloaded flag to true leaves a byte-complete file for it at its
\* destination path; this includes the pass that finds the file a broken
\* transfer left behind.
C12_DownloadedMeansComplete ==
    [][ IsPass =>
          LET c  == comics[dl_selected[pos] + 1]
              cn == comics'[dl_selected[pos] + 1]
          IN  (~c.downloaded /\ cn.downloaded) => CompleteFile(cn) \in files'
      ]_vars

\* C13: search_comics terminates; it asks for at most PageLimit listing
\* pages, and they are the pages 1, 2, 3, ... in order, none skipped and
\* none repeated; a page after the first is asked for only when the page
\* before it gave at least one valid entry and fewer than max_results
\* candidates are accumulated.
C13_BoundedOrderedRequests ==
    /\ [](/\ Len(requests) <= PageLimit
          /\ requests = Upto(Len(requests)))
    /\ [][ requests' # requests =>
             /\ requests' = Append(requests, Len(requests) + 1)
             /\ page = Len(requests) + 1
             /\ Len(all_comics) < max_results
             /\ (Len(requests) > 0) => page_comics # <<>>
      ]_vars
    /\ <>(spc = "done")

\* C13's case: ten pages gave entries without filling max_results, and the
\* search stopped at the page limit without asking for an eleventh.
C13_Witness ==
    /\ spc = "done"
    /\ endReason = "page_limit"
    /\ page = PageLimit + 1
    /\ requests = Upto(PageLimit)
    /\ Len(all_comics) < max_results

\* C14: over all the batches of a session, a candidate's download_link,
\* once it holds an address, is never changed by any step; a pass calls
\* extract_download_link exactly when the candidate it handles has no link
\* yet, so never again for a candidate whose link is set; and no step other
\* than a pass touches a link.
C14_LinkResolvedOnce ==
    [][ /\ \A i \in 1..Len(comics) :
              HasLink(comics[i]) =>
                  comics'[i].download_link = comics[i].download_link
        /\ IsPass =>
              LET c == comics[dl_selected[pos] + 1]
              IN  /\ last'.resolver_called <=> ~HasLink(c)
                  /\ last'.had_link <=> HasLink(c)
        /\ ~IsPass =>
              /\ \A i \in 1..Len(comics) :
                    comics'[i].download_link = comics[i].download_link
              /\ ~last'.resolver_called \/ last' = last
      ]_vars

\* C14's case: the only candidate got its link in the first batch; the
\* second batch has processed it again, without calling the resolver, and
\* transferred the artifact from the link it had.
C14_Witness ==
    /\ Len(comics) = 1
    /\ batches = 2
    /\ pos = 2
    /\ last.idx = 0
    /\ last.had_link
    /\ ~last.resolver_called
    /\ last.result = "transferred"
    /\ comics[1].download_link = "https://h/a.ZIP"

\* C15: the summary a batch prints has attempted = the number of selected
\* indices, succeeded + failed = attempted, and a succeeded count equal to
\* the number of passes of that same batch whose download succeeded
\* (transferred, or the file was already there), whatever flags the
\* candidates carried over from earlier batches.
C15_SummaryCountsBatch ==
    [][ (dpc = "batch" /\ dpc' # "batch") =>
          /\ summary'.attempted = Len(dl_selected)
          /\ summary'.successful + summary'.failed = summary'.attempted
          /\ summary'.successful = ok_attempts
      ]_vars

====
